---- MODULE Spec2Model ----
(***************************************************************************)
(* rss-to-signal: the incremental-feed state machine of                    *)
(* src/rss_to_signal/main.py.                                              *)
(*                                                                         *)
(* One run of main() is a sequence of steps (StartRun, then per entry     *)
(* SkipEntry or GetOgImage / Dispatch* / Checkpoint, then Finish); runs    *)
(* follow each other and the remote feed grows between runs (Publish).     *)
(* Time is counted in ticks; a feed entry's published string denotes an    *)
(* instant in ticks, dateutil's parse() keeps it, and feedparser's        *)
(* published_parsed (a time.struct_time) keeps whole seconds only.         *)
(***************************************************************************)
EXTENDS Integers, Sequences, FiniteSets, TLC

\* ---- bounds of the model
MaxEntries == 2      \* entries the remote feed ever holds
MaxDate == 3         \* publication instants are 1..MaxDate ticks

\* ---- program constants
None == -1           \* Python's None / an absent key of the state dict
TicksPerSecond == 2  \* resolution lost by time.struct_time (whole seconds)

VARIABLES
    feed,       \* remote feed document: feed[e] = published instant of entry e
    dests,      \* cfg["dests"]
    file,       \* <feed_name>.state.json
    pc,         \* position of main(): "idle", "loop" or "dispatch"
    state,      \* main's state dict
    latest_processed_entry_date,    \* main's local, unpacked once from state
    start_date, \* --start-date
    skip_signal,\* --skip-signal
    d,          \* result of feedparser.parse: its status
    entries,    \* sorted(d.entries, key=published_parsed), as entry ids
    i,          \* index of the for loop of main in entries
    j,          \* index of the for loop of process_entry in dests
    og_image,   \* process_entry's og_image is not None
    pre,        \* history: the state file as the last run found it
    previews,   \* history: entries the last run called get_og_image for
    cmds,       \* history: commands built for the entry in process, or the
                \* one a failure ended the run in
    notified,   \* history: entries whose process_entry returned in the last run
    skipped,    \* history: entries the last run skipped
    writes,     \* history: documents dump_state wrote in the last run, in order
    result,     \* history: how the last run ended ("running" while it runs)
    pending,    \* history: the eligible entries a failed command left undone
    delivered,  \* history: entries dispatched to all their destinations
    exempt,     \* history: entries a crash hit between dispatch and write
    advanced    \* history: entries checkpointed with no command executed

vars == <<feed, dests, file, pc, state, latest_processed_entry_date, start_date,
          skip_signal, d, entries, i, j, og_image, pre, previews, cmds,
          notified, skipped, writes, result, pending, delivered,
                   exempt, advanced>>

\* ---- data
Dates == 1..MaxDate

\* ETag and Last-Modified values are opaque to the program, which only stores
\* them and sends them back; the server tells whether one names the document
\* it serves now. A stored value is kept as what the server makes of it.
NoToken == "absent"     \* the key is not in the state dict
Current == "current"    \* names the document the server serves now
Stale == "stale"        \* names an earlier document
Aged(token) == IF token = Current THEN Stale ELSE token

EmptyState == [lped |-> None, etag |-> NoToken, modified |-> NoToken]
AbsentFile == [st |-> "absent", lped |-> None, etag |-> NoToken, modified |-> NoToken]
CorruptFile == [st |-> "corrupt", lped |-> None, etag |-> NoToken, modified |-> NoToken]

\* dump_state: the whole document is written
Dumped(s) == [st |-> "ok", lped |-> s.lped, etag |-> s.etag, modified |-> s.modified]

\* json.load with object_hook; FileNotFoundError gives {}
Loaded(f) == [lped |-> f.lped, etag |-> f.etag, modified |-> f.modified]

\* destination records of cfg["dests"]: the enabled flag (absent means true)
\* and the identifying field the record carries ("none": none of the three)
ToGroup == [enabled |-> TRUE, field |-> "group"]
ToUser == [enabled |-> TRUE, field |-> "username"]
Disabled == [enabled |-> FALSE, field |-> "phone"]
Malformed == [enabled |-> TRUE, field |-> "none"]

\* the destination lists the runs are configured with
DestConfigs == {<<>>, <<ToUser, ToGroup>>, <<ToGroup, Disabled>>,
                <<Malformed, Disabled>>}

Range(s) == {s[k] : k \in 1..Len(s)}

\* ---- the feed as the two parsers see it
\* parse(e.published): the instant itself
e_date(e) == feed[e]

\* e.published_parsed: a struct_time, whole seconds
published_parsed(e) == feed[e] \div TicksPerSecond

\* ---- sorted(d.entries, key=lambda x: x.published_parsed): stable
RECURSIVE InsertByKey(_, _)
InsertByKey(s, e) ==
    IF s = <<>> THEN <<e>>
    ELSE IF published_parsed(Head(s)) <= published_parsed(e)
         THEN <<Head(s)>> \o InsertByKey(Tail(s), e)
         ELSE <<e>> \o s

RECURSIVE SortedUpTo(_)
SortedUpTo(n) == IF n = 0 THEN <<>> ELSE InsertByKey(SortedUpTo(n - 1), n)

\* mutant: the entries are taken in feed order, unsorted
sorted_entries_FeedOrder == [k \in 1..Len(feed) |-> k]

sorted_entries == SortedUpTo(Len(feed))

\* ---- conditional fetch: the server answers 304 when the validator sent names
\* the current document (If-None-Match first, else If-Modified-Since)
NotModified(etag, modified) ==
    IF etag # NoToken THEN etag = Current
    ELSE modified # NoToken /\ modified = Current

\* mutant: the watermark is not tested
Eligible_NoWatermark(e) == start_date = None \/ e_date(e) > start_date

\* mutant: an entry dated at the floor date passes
Eligible_AtFloor(e) ==
    /\ (latest_processed_entry_date = None \/ e_date(e) > latest_processed_entry_date)
    /\ (start_date = None \/ e_date(e) >= start_date)

\* mutant: the test uses the watermark as advanced during the loop
Eligible_Advancing(e) ==
    /\ (state.lped = None \/ e_date(e) > state.lped)
    /\ (start_date = None \/ e_date(e) > start_date)

\* ---- the test of the for loop of main
Eligible(e) ==
    /\ (latest_processed_entry_date = None \/ e_date(e) > latest_processed_entry_date)
    /\ (start_date = None \/ e_date(e) > start_date)

\* ---- process_entry: which destinations get a command
HasDestPart(dest) == dest.field \in {"phone", "username", "group"}
\* mutant: the enabled flag is not looked at
Deliverable_IgnoresEnabled(dest) == HasDestPart(dest)

Deliverable(dest) == dest.enabled /\ HasDestPart(dest)

\* mutant: the watermark is set without the comparison
Advanced_NoGuard(s, e) == [s EXCEPT !.lped = e_date(e)]

\* mutant: the watermark is not kept
Advanced_Never(s, e) == s

\* mutant: the watermark moves only for an entry that was sent
Advanced_IfSent(s, e) ==
    IF \E c \in Range(cmds) : c.kind = "run" /\ c.e = e
    THEN (IF s.lped = None \/ e_date(e) > s.lped THEN [s EXCEPT !.lped = e_date(e)] ELSE s)
    ELSE s

\* ---- the watermark step after process_entry returned
Advanced(s, e) ==
    IF s.lped = None \/ e_date(e) > s.lped THEN [s EXCEPT !.lped = e_date(e)] ELSE s

\* ---- the cache tokens at the end of the loop
WithTokens(s, etag, modified) ==
    LET s1 == IF etag # NoToken THEN [s EXCEPT !.etag = etag] ELSE s
    IN IF modified # NoToken THEN [s1 EXCEPT !.modified = modified] ELSE s1

NoResponse == [status |-> 0]

\* entries of this run that are eligible from position k on
PendingFrom(k) == {entries[m] : m \in {n \in k..Len(entries) : Eligible(entries[n])}}

\* entries for which every deliverable destination got a successful command
FullySent(log) ==
    {e \in 1..Len(feed) :
        /\ \E k \in 1..Len(dests) : Deliverable(dests[k])
        /\ \A k \in 1..Len(dests) : Deliverable(dests[k]) =>
              \E c \in Range(log) : c.e = e /\ c.dest = k /\ c.kind = "run" /\ c.ok}

Init ==
    /\ feed = <<>>
    /\ dests \in DestConfigs
    /\ file = AbsentFile
    /\ pc = "idle"
    /\ state = EmptyState
    /\ latest_processed_entry_date = None
    /\ start_date = None
    /\ skip_signal = FALSE
    /\ d = NoResponse
    /\ entries = <<>>
    /\ i = 1
    /\ j = 1
    /\ og_image = FALSE
    /\ pre = AbsentFile
    /\ previews = <<>>
    /\ cmds = <<>>
    /\ notified = <<>>
    /\ skipped = {}
    /\ writes = <<>>
    /\ result = "none"
    /\ pending = {}
    /\ delivered = {}
    /\ exempt = {}
    /\ advanced = {}


\* ---- how a run ends: return, or an exception that leaves main; the
\* process is gone and its variables with it
EndRun(res) ==
    /\ pc' = "idle"
    /\ result' = res
    /\ state' = EmptyState
    /\ latest_processed_entry_date' = None
    /\ d' = NoResponse
    /\ entries' = <<>>
    /\ i' = 1
    /\ j' = 1
    /\ og_image' = FALSE

\* mutant: check=True is left out, a failed command goes unnoticed
Raises_Unchecked(ok) == FALSE

\* subprocess.run(cmd, shell=True, check=True): a failed command raises
Raises(ok) == ~ok

\* mutant: the 304 test is left out
ReturnsEarly_Never(status) == FALSE

\* if d.status == 304: return
ReturnsEarly(status) == status = 304

\* mutant: the state is written at the end of the run only
CheckpointWrite_NoDump(s) == file

\* mutant: the validators of the response are stored with every entry
CheckpointWrite_WithTokens(s) == Dumped([s EXCEPT !.etag = Current, !.modified = Current])

\* dump_state(state, feed_name) inside the loop
CheckpointWrite(s) == Dumped(s)

\* mutant: FileNotFoundError is not caught
LoadRaises_NoCatch(f) == f.st # "ok"

\* main, lines 147-150: only FileNotFoundError is caught at load
LoadRaises(f) == f.st = "corrupt"

\* --start-date is not given, or it is one of the two instants before the
\* latest one, so that entries are dated before, at and after it
Floors == {None} \cup ((MaxDate - 2)..(MaxDate - 1))
PreviewOutcomes == {"image", "no_tag", "page_error", "image_error"}

\* main, lines 139-162: config, state, conditional fetch
StartRun(dry, floor) ==
    /\ pc = "idle"
    /\ pending' = {}
    /\ pre' = file
    /\ start_date' = floor
    /\ skip_signal' = dry
    /\ previews' = <<>>
    /\ cmds' = <<>>
    /\ notified' = <<>>
    /\ skipped' = {}
    /\ writes' = <<>>
    /\ IF LoadRaises(file)
       THEN \* json.load raises JSONDecodeError, which main does not catch
            EndRun("load_failed")
       ELSE LET s == Loaded(file)
                status == IF NotModified(s.etag, s.modified) THEN 304 ELSE 200
            IN IF ReturnsEarly(status)
               THEN EndRun("unchanged")
               ELSE /\ state' = s
                    /\ latest_processed_entry_date' = s.lped
                    /\ d' = [status |-> status]
                    /\ entries' = IF status = 304 THEN <<>> ELSE sorted_entries
                    /\ pc' = "loop"
                    /\ result' = "running"
                    /\ i' = 1
                    /\ j' = 1
                    /\ og_image' = FALSE
    /\ UNCHANGED <<feed, dests, file, delivered, exempt, advanced>>

\* main, lines 178-179: the else branch of the loop
SkipEntry ==
    /\ pc = "loop"
    /\ i <= Len(entries)
    /\ ~Eligible(entries[i])
    /\ skipped' = skipped \cup {entries[i]}
    /\ i' = i + 1
    /\ UNCHANGED <<feed, dests, file, pc, state, latest_processed_entry_date,
                   start_date, skip_signal, d, entries, j, og_image, pre, previews,
                   cmds, notified, writes, result, pending, delivered,
                   exempt, advanced>>

\* main line 174 and process_entry lines 51-55: get_og_image(entry.link);
\* its httpx errors (client.get, raise_for_status) are caught nowhere
GetOgImage(o) ==
    /\ pc = "loop"
    /\ i <= Len(entries)
    /\ Eligible(entries[i])
    /\ previews' = Append(previews, entries[i])
    /\ IF o \in {"page_error", "image_error"}
       THEN EndRun(o)
       ELSE /\ pc' = "dispatch"
            /\ j' = 1
            /\ og_image' = (o = "image")
            /\ UNCHANGED <<result, state, latest_processed_entry_date, d, entries, i>>
    /\ UNCHANGED <<feed, dests, file, start_date, skip_signal, pre, cmds,
                   notified, skipped, writes, pending, delivered, exempt, advanced>>

\* process_entry, lines 61-74: a disabled destination, or none of the fields
SkipDest ==
    /\ pc = "dispatch"
    /\ j <= Len(dests)
    /\ ~Deliverable(dests[j])
    /\ j' = j + 1
    /\ UNCHANGED <<feed, dests, file, pc, state, latest_processed_entry_date,
                   start_date, skip_signal, d, entries, i, og_image, pre, previews,
                   cmds, notified, skipped, writes, result, pending, delivered,
                   exempt, advanced>>

\* mutant: dry_run is not tested, the command is run
Command_Run(kind, ok) ==
    [e |-> entries[i], dest |-> j, image |-> og_image, kind |-> "run", ok |-> ok]

\* the command built for the destination, and what is done with it
Command(kind, ok) ==
    [e |-> entries[i], dest |-> j, image |-> og_image, kind |-> kind, ok |-> ok]

\* process_entry, lines 84-85: dry run, the command is printed only
ReportCmd ==
    /\ pc = "dispatch"
    /\ j <= Len(dests)
    /\ Deliverable(dests[j])
    /\ skip_signal
    /\ cmds' = Append(cmds, Command("report", TRUE))
    /\ j' = j + 1
    /\ UNCHANGED <<feed, dests, file, pc, state, latest_processed_entry_date,
                   start_date, skip_signal, d, entries, i, og_image, pre, previews,
                   notified, skipped, writes, result, pending, delivered,
                   exempt, advanced>>

\* process_entry, lines 86-88: the command is run
RunCmd(ok) ==
    /\ pc = "dispatch"
    /\ j <= Len(dests)
    /\ Deliverable(dests[j])
    /\ ~skip_signal
    /\ cmds' = Append(cmds, Command("run", ok))
    /\ IF Raises(ok)
       THEN /\ EndRun("dispatch_failed")
            /\ pending' = PendingFrom(i)
       ELSE /\ j' = j + 1
            /\ UNCHANGED <<pc, result, og_image, state, latest_processed_entry_date,
                           d, entries, i, pending>>
    /\ UNCHANGED <<feed, dests, file, start_date, skip_signal, pre, previews,
                   notified, skipped, writes, delivered, exempt, advanced>>

\* main, lines 175-177: process_entry returned; watermark, dump_state
Checkpoint ==
    /\ pc = "dispatch"
    /\ j > Len(dests)
    /\ notified' = Append(notified, entries[i])
    /\ delivered' = delivered \cup FullySent(cmds)
    /\ advanced' = IF \E c \in Range(cmds) : c.kind = "run"
                   THEN advanced ELSE advanced \cup {entries[i]}
    /\ cmds' = <<>>
    /\ state' = Advanced(state, entries[i])
    /\ file' = CheckpointWrite(state')
    /\ writes' = Append(writes, file')
    /\ i' = i + 1
    /\ pc' = "loop"
    /\ j' = 1
    /\ og_image' = FALSE
    /\ UNCHANGED <<feed, dests, latest_processed_entry_date, start_date, skip_signal,
                   d, entries, pre, previews, skipped, result, pending, exempt>>

\* mutant: a missing attribute of the response is read as a false value
MissingRaises_Never(present, lenient) == FALSE

\* d.etag, d.modified: attribute reads of feedparser's result, which holds the
\* key only when the response carried the header. With a lenient result type
\* the read of a missing key gives a false value; feedparser's own dict raises
\* AttributeError for it.
MissingRaises(present, lenient) == ~present /\ ~lenient

\* main, lines 183-189: the loop is over; cache tokens, dump_state.
\* d.etag and d.modified are read here only: the response carried each or not.
\* An AttributeError leaves main before the final dump_state.
Finish(sendsEtag, sendsModified, lenient) ==
    /\ pc = "loop"
    /\ i > Len(entries)
    /\ IF MissingRaises(sendsEtag, lenient) \/ MissingRaises(sendsModified, lenient)
       THEN /\ EndRun("token_error")
            /\ UNCHANGED <<file, writes>>
       ELSE /\ LET s == WithTokens(state, IF sendsEtag THEN Current ELSE NoToken,
                                          IF sendsModified THEN Current ELSE NoToken)
               IN /\ file' = Dumped(s)
                  /\ writes' = Append(writes, Dumped(s))
            /\ EndRun("done")
    /\ UNCHANGED <<feed, dests, start_date, skip_signal, pre, previews, cmds,
                   notified, skipped, pending, delivered, exempt, advanced>>

\* what the history variables tell of the last run is dropped
ForgetRun ==
    /\ pre' = AbsentFile
    /\ previews' = <<>>
    /\ cmds' = <<>>
    /\ notified' = <<>>
    /\ skipped' = {}
    /\ writes' = <<>>
    /\ pending' = {}
    /\ start_date' = None
    /\ skip_signal' = FALSE

\* the site publishes an entry; the server serves a new document, and the
\* validators it handed out before name an earlier one
Publish(t) ==
    /\ pc = "idle"
    /\ Len(feed) < MaxEntries
    /\ feed' = Append(feed, t)
    /\ file' = [file EXCEPT !.etag = Aged(@), !.modified = Aged(@)]
    /\ ForgetRun
    /\ result' = "none"
    /\ UNCHANGED <<dests, pc, state, latest_processed_entry_date, d, entries,
                   i, j, og_image, delivered, exempt, advanced>>

Next ==
    \/ \E dry \in BOOLEAN, floor \in Floors : StartRun(dry, floor)
    \/ SkipEntry
    \/ \E o \in PreviewOutcomes : GetOgImage(o)
    \/ SkipDest
    \/ ReportCmd
    \/ \E ok \in BOOLEAN : RunCmd(ok)
    \/ Checkpoint
    \/ \E se \in BOOLEAN, sm \in BOOLEAN, lenient \in BOOLEAN : Finish(se, sm, lenient)
    \/ \E t \in Dates : Publish(t)

Spec == Init /\ [][Next]_vars

\* ---- the process is killed (or the machine stops) in the middle of a run;
\* nothing is claimed of a run that ended so, and its history is dropped

\* every deliverable destination of the entry in process has its command
AllSent == pc = "dispatch" /\ entries[i] \in FullySent(cmds)

\* a crash anywhere but between an entry's last command and its checkpoint
CrashOutsideCheckpoint ==
    /\ pc # "idle"
    /\ ~AllSent
    /\ EndRun("crashed")
    /\ ForgetRun
    /\ UNCHANGED <<feed, dests, file, delivered, exempt, advanced>>

\* a crash after the last command of an entry, before dump_state opens the file
CrashBeforeCheckpoint ==
    /\ AllSent
    /\ delivered' = delivered \cup {entries[i]}
    /\ exempt' = exempt \cup {entries[i]}
    /\ EndRun("crashed")
    /\ ForgetRun
    /\ UNCHANGED <<feed, dests, file, advanced>>

\* a crash inside dump_state: open("w") has truncated the file and json.dump
\* has not filled it again
CrashInDumpState ==
    /\ \/ pc = "dispatch" /\ j > Len(dests)
       \/ pc = "loop" /\ i > Len(entries)
    /\ delivered' = IF pc = "dispatch" THEN delivered \cup FullySent(cmds) ELSE delivered
    /\ file' = CorruptFile
    /\ EndRun("crashed_in_write")
    /\ ForgetRun
    /\ UNCHANGED <<feed, dests, exempt, advanced>>

CrashNext ==
    \/ Next
    \/ CrashOutsideCheckpoint
    \/ CrashBeforeCheckpoint
    \/ CrashInDumpState

SpecCrash == Init /\ [][CrashNext]_vars

\* ---- what the claims speak of

\* a run is over, and the history variables tell of it
RunOver == pc = "idle" /\ result # "none"

\* the publication instants of the entries notified in the last run
NotifiedDates == {e_date(notified[k]) : k \in 1..Len(notified)}

MaxOf(S) == CHOOSE x \in S : \A y \in S : y <= x

\* the commands of cmds that were run (not only reported)
RunCmds == {c \in Range(cmds) : c.kind = "run"}

\* the eligibility test as the claims state it, on the watermark the run found
Selected(e) ==
    /\ (pre.lped = None \/ e_date(e) > pre.lped)
    /\ (start_date = None \/ e_date(e) > start_date)

\* C1 (as claimed): when the dispatch of entry ek fails in a non-dry run, the
\* persisted watermark after the run is the publication timestamp of e(k-1)
\* (the watermark the run found when k = 1), never that of ek, and the
\* persisted entity tag and last-modified values are the ones the run found.
C1_PartialFailureCheckpoint ==
    (pc = "idle" /\ result = "dispatch_failed") =>
        LET ek == cmds[Len(cmds)].e
        IN /\ file.lped = IF notified = <<>> THEN pre.lped
                          ELSE e_date(notified[Len(notified)])
           /\ file.lped # e_date(ek)
           /\ file.etag = pre.etag
           /\ file.modified = pre.modified

C3_RetryAfterFailure ==
    [][(/\ pc = "idle"
        /\ result = "dispatch_failed"
        /\ result' # "none"
        /\ feed' = feed
        /\ start_date' = start_date)
       => (pc' = "loop" /\ \A e \in pending : Eligible(e)')]_vars

\* C4: the persisted watermark never decreases, at any state write of any run
\* and from run to run.
C4_MonotonicWatermark ==
    [][/\ file.lped # None => file'.lped # None
       /\ file'.lped >= file.lped]_vars

\* C4: two entries of one second were notified, the later-dated first, and the
\* watermark stayed at the later date.
C4_Witness ==
    /\ Len(notified) = 2
    /\ e_date(notified[1]) > e_date(notified[2])
    /\ file.lped = e_date(notified[1])
    /\ Len(writes) >= 2

C6_EligibilityFilter ==
    /\ \A e \in Range(previews) : Selected(e)
    /\ \A e \in skipped : ~Selected(e)
    /\ Range(previews) \cap skipped = {}
    /\ (pc = "idle" /\ result = "done") =>
          Range(previews) \cup skipped = 1..Len(feed)

\* C6: an entry later than the floor date but not later than the watermark was
\* skipped, and another entry was processed.
C6_Witness ==
    /\ result = "done"
    /\ previews # <<>>
    /\ \E e \in skipped :
          /\ start_date # None /\ e_date(e) > start_date
          /\ pre.lped # None /\ e_date(e) <= pre.lped

C8_UnchangedShortCircuit ==
    (result = "unchanged" \/ d.status = 304) =>
        /\ pc = "idle"
        /\ previews = <<>>
        /\ cmds = <<>>
        /\ notified = <<>>
        /\ writes = <<>>
        /\ file = pre

\* C8: a run right after one that notified entries and stored the cache
\* tokens found the feed unchanged.
C8_Witness ==
    /\ result = "unchanged"
    /\ file.lped # None
    /\ file.etag = Current

\* C9 (as claimed): a failed page or image fetch is not fatal: every entry
\* get_og_image was called for is notified, unless its dispatch failed.
C9_PreviewFailureNotFatal ==
    (RunOver /\ result # "dispatch_failed") =>
        \A e \in Range(previews) : e \in Range(notified)

\* C10: a failed command is the last thing a run does: no command for a later
\* destination of the entry, no checkpoint of the entry, no later entry, and
\* the run ends with the failure.
C10_DispatchFailureStopsRun ==
    \A k \in 1..Len(cmds) :
        ~cmds[k].ok =>
            /\ k = Len(cmds)
            /\ pc = "idle"
            /\ result = "dispatch_failed"
            /\ cmds[k].e \notin Range(notified)
            /\ previews[Len(previews)] = cmds[k].e
            /\ Len(writes) = Len(notified)

\* C10: the command for the first of two destinations failed while another
\* eligible entry was still to come.
C10_Witness ==
    /\ result = "dispatch_failed"
    /\ Len(cmds) = 1
    /\ cmds[1].dest = 1
    /\ Len(dests) = 2
    /\ Deliverable(dests[2])
    /\ Cardinality(pending) = 2

\* the destinations among the first n that are enabled and carry a phone,
\* username or group field, in list order
WantedDests(n) ==
    SelectSeq([k \in 1..n |-> k],
              LAMBDA k : dests[k].enabled
                         /\ dests[k].field \in {"phone", "username", "group"})

\* the destinations the commands built so far are addressed to, in order
CmdDests == [k \in 1..Len(cmds) |-> cmds[k].dest]

\* C11: in a non-dry run, as long as no command has failed, the commands run
\* for the entry in process are exactly one for each destination passed so far
\* that is enabled and carries a phone, username or group field, in list
\* order, and none for a disabled destination or one without such a field;
\* when process_entry returns all destinations have been passed.
C11_DestinationFanOut ==
    (pc = "dispatch" /\ ~skip_signal) =>
        /\ CmdDests = WantedDests(j - 1)
        /\ \A c \in Range(cmds) : c.kind = "run" /\ c.ok /\ c.e = entries[i]

\* C11: process_entry is about to return for an entry of a run configured with
\* a group and a disabled phone destination: one command, to the group.
C11_Witness ==
    /\ pc = "dispatch"
    /\ ~skip_signal
    /\ j > Len(dests)
    /\ dests = <<ToGroup, Disabled>>
    /\ Len(cmds) = 1
    /\ cmds[1].dest = 1

\* C12: in a dry run no command is ever executed; the commands of the entry in
\* process are reported, one for each enabled destination passed so far, in
\* list order; and in a run whose loop came to its end every eligible entry of
\* the fetched feed has gone through process_entry this way.
C12_DryRunReportsOnly ==
    skip_signal =>
        /\ \A c \in Range(cmds) : c.kind = "report" /\ c.e = entries[i]
        /\ pc = "dispatch" => CmdDests = WantedDests(j - 1)
        /\ (RunOver /\ result \in {"done", "token_error"}) =>
              \A e \in 1..Len(feed) : Selected(e) => e \in Range(notified)

\* C12: a dry run has reported the commands for both destinations of its
\* second eligible entry.
C12_Witness ==
    /\ skip_signal
    /\ pc = "dispatch"
    /\ j > Len(dests)
    /\ Len(cmds) = 2
    /\ cmds[1].kind = "report" /\ cmds[2].kind = "report"
    /\ Len(notified) = 1

\* the run in progress, or the last one, found no state file
FoundNoState == pre.st = "absent" /\ result # "none"

\* C13 (as claimed): a run that finds no state file does not fail at load,
\* starts from an empty state, and of the entries its loop reaches it
\* processes those dated at or after the floor date (all when there is none)
\* and skips the others.
C13_AtOrAfterFloor ==
    FoundNoState =>
        /\ result \notin {"load_failed", "unchanged"}
        /\ pc # "idle" => /\ latest_processed_entry_date = None
                          /\ state.etag = NoToken /\ state.modified = NoToken
        /\ \A e \in Range(previews) : start_date = None \/ e_date(e) >= start_date
        /\ \A e \in skipped : start_date # None /\ e_date(e) < start_date

\* C13 (amended): the same with "strictly after the floor date": an entry
\* dated at the floor date is skipped; a run whose loop came to its end has
\* reached every entry of the feed.
C13_AfterFloor ==
    FoundNoState =>
        /\ result \notin {"load_failed", "unchanged"}
        /\ pc # "idle" => /\ latest_processed_entry_date = None
                          /\ state.etag = NoToken /\ state.modified = NoToken
        /\ \A e \in Range(previews) : start_date = None \/ e_date(e) > start_date
        /\ \A e \in skipped : start_date # None /\ e_date(e) <= start_date
        /\ result \in {"done", "token_error"} =>
              Range(previews) \cup skipped = 1..Len(feed)

\* C13: a first run with a floor date skipped the entry dated at the floor
\* date and processed a later one.
C13_Witness ==
    /\ FoundNoState
    /\ result = "done"
    /\ start_date # None
    /\ \E e \in skipped : e_date(e) = start_date
    /\ previews # <<>>

\* the entity tag and last-modified value of a document are those the run found
TokensAsFound(doc) == doc.etag = pre.etag /\ doc.modified = pre.modified

\* C14: in a run the state file changes only by the run's writes; every write
\* but the one after the loop of a run that ends normally carries the entity
\* tag and last-modified value the run found; that one write comes after one
\* write for each processed entry, when every eligible entry is processed; a
\* run that ends early (unchanged feed or failure) leaves both values as found.
C14_CacheTokenDiscipline ==
    (pc # "idle" \/ RunOver) =>
        /\ IF writes = <<>> THEN file = pre ELSE file = writes[Len(writes)]
        /\ \A k \in 1..Len(writes) :
              (k < Len(writes) \/ result # "done") => TokensAsFound(writes[k])
        /\ result # "done" => TokensAsFound(file) /\ Len(writes) = Len(notified)
        /\ result = "done" =>
              /\ Len(writes) = Len(notified) + 1
              /\ \A e \in 1..Len(feed) : Selected(e) => e \in Range(notified)

\* C14: a run wrote the state once per entry with the validators it found and
\* then once with those of the response.
C14_Witness ==
    /\ result = "done"
    /\ Len(writes) = 3
    /\ TokensAsFound(writes[1]) /\ TokensAsFound(writes[2])
    /\ pre.etag = Stale
    /\ file.etag = Current

\* the entries of the run in progress that are eligible and not yet
\* checkpointed: the one in process and those the loop has still to reach
NotYetDone == PendingFrom(i)

\* C15 (as claimed): in a non-dry run each entry's watermark write follows its
\* dispatch and precedes any fetch or dispatch for the next entry, the
\* watermark written is the entry's timestamp when that is greater than the
\* one in memory, and the persisted watermark is never at or above the
\* timestamp of an eligible entry whose dispatch has not completed.
C15_CheckpointOrdering ==
    (~skip_signal /\ pc # "idle") =>
        /\ Len(writes) = Len(notified)
        /\ previews = IF pc = "dispatch" THEN Append(notified, entries[i]) ELSE notified
        /\ \A c \in Range(cmds) : pc = "dispatch" /\ c.e = entries[i]
        /\ \A k \in 1..Len(writes) :
              LET before == IF k = 1 THEN pre.lped ELSE writes[k - 1].lped
                  t == e_date(notified[k])
              IN writes[k].lped = IF before = None \/ t > before THEN t ELSE before
        /\ \A e \in NotYetDone : file.lped = None \/ file.lped < e_date(e)

\* the step of main after the loop: lines 184-189, or the exception that
\* leaves them
LeavesLoopEnd == pc = "loop" /\ i > Len(entries) /\ pc' = "idle"

\* C16 (as claimed): at the end of a fully processed run each of the persisted
\* entity tag and last-modified value is either replaced by the one the
\* response carried or left as it was, the watermark is written as it stands,
\* and the run completes whatever the response carried.
C16_TokenHalvesIndependent ==
    [][LeavesLoopEnd =>
          /\ result' = "done"
          /\ file'.lped = state.lped
          /\ file'.etag \in {state.etag, Current}
          /\ file'.modified \in {state.modified, Current}]_vars

\* C17: an entry whose process_entry returned is written to the state file
\* with a watermark at or above its timestamp whether or not a command was
\* executed for it; a run that executed none (dry run, no enabled well-formed
\* destination) and ends normally makes the final write as any other run; and
\* an entry checkpointed with no command executed is never processed by a
\* later run, so never notified.
C17_AdvanceWithoutDelivery ==
    /\ Len(writes) >= Len(notified)
    /\ \A k \in 1..Len(notified) : writes[k].lped >= e_date(notified[k])
    /\ \A e \in advanced : file.st = "ok" /\ file.lped >= e_date(e)
    /\ result = "done" => Len(writes) = Len(notified) + 1 /\ file = writes[Len(writes)]
    /\ \A e \in advanced \cap Range(previews) : e \in Range(notified)
    /\ \A c \in RunCmds : c.e \notin advanced

\* C17: a normal run with a destination to send to skips an entry that an
\* earlier dry run checkpointed, and sends a newer one.
C17_Witness ==
    /\ pc = "dispatch"
    /\ ~skip_signal
    /\ RunCmds # {}
    /\ skipped \cap advanced # {}
    /\ skipped \cap delivered = {}

\* C18: when a run whose loop came to its end is followed by a run on the same
\* feed content with the same floor date, and the server sends the full feed
\* again, no entry is eligible in the second run: nothing is fetched for a
\* preview and nothing is notified.
C18_IdempotentWithoutConditionalFetch ==
    [][(/\ pc = "idle"
        /\ result \in {"done", "token_error"}
        /\ pc' = "loop"
        /\ feed' = feed
        /\ start_date' = start_date)
       => /\ entries' = sorted_entries
          /\ \A e \in 1..Len(feed) : ~Eligible(e)']_vars

\* C18: a run that was sent the full feed has skipped both entries, which
\* earlier runs had delivered, and is at the end of its loop.
C18_Witness ==
    /\ pc = "loop"
    /\ i > Len(entries)
    /\ Len(feed) = 2
    /\ skipped = {1, 2}
    /\ delivered = {1, 2}
    /\ start_date = None
    /\ pre.etag = NoToken /\ pre.modified = NoToken

\* pairs of eligible entries of the feed with the same publication timestamp,
\* the first earlier in the feed
TiedPairs ==
    {p \in (1..Len(feed)) \X (1..Len(feed)) :
        /\ p[1] < p[2]
        /\ e_date(p[1]) = e_date(p[2])
        /\ Selected(p[1]) /\ Selected(p[2])}

\* position of an entry in the sequence of notified entries
NotifiedAt(e) == CHOOSE k \in 1..Len(notified) : notified[k] = e

\* C19: the test of the loop uses the watermark loaded at the start of the
\* run; of eligible entries with the same publication timestamp none is
\* skipped, they are notified in feed order, all of them when the loop comes
\* to its end, and there is one state write per notified entry, that of a
\* later one of them leaving the watermark as the write before had it.
C19_EqualTimestampsInOneRun ==
    /\ pc # "idle" => latest_processed_entry_date = pre.lped
    /\ (pc # "idle" \/ RunOver) =>
          /\ Len(writes) >= Len(notified)
          /\ \A p \in TiedPairs :
                /\ p[1] \notin skipped /\ p[2] \notin skipped
                /\ p[2] \in Range(previews) => p[1] \in Range(notified)
                /\ p[2] \in Range(notified) =>
                      /\ NotifiedAt(p[1]) < NotifiedAt(p[2])
                      /\ writes[NotifiedAt(p[2])].lped = writes[NotifiedAt(p[2]) - 1].lped
                      /\ writes[NotifiedAt(p[2])].lped >= e_date(p[2])
                /\ result \in {"done", "token_error"} =>
                      p[1] \in Range(notified) /\ p[2] \in Range(notified)

\* C19: a run that found a watermark notified two later entries of one
\* timestamp, in feed order, and wrote the state for each.
C19_Witness ==
    /\ result = "done"
    /\ notified = <<1, 2>>
    /\ e_date(1) = e_date(2)
    /\ Len(writes) = 3
    /\ writes[1].lped = e_date(1)
    /\ writes[2] = writes[1]

====
